---- MODULE Spec2Model ----
(***************************************************************************)
(* Campaign dispatch engine of the Emailscraper backend.                   *)
(*                                                                         *)
(* CampaignService (startCampaign, processCampaignEmails, pauseCampaign,   *)
(* resumeCampaign) and EmailService (sendEmail, checkAndUpdateRateLimit,   *)
(* getTransporter, updateSMTPStats, updateDailyStats, scheduleDailyReset)  *)
(* as a state machine.  Every `await` of the source is a point where other *)
(* handlers of the Node.js process may run, so each asynchronous method is *)
(* cut into steps at its awaits; a step is one action.                     *)
(*                                                                         *)
(* All campaigns use the same SMTP configuration (provider identity).      *)
(* Time is the hour of the day plus the relation of lastResetDate to the   *)
(* current date, which is all the code reads from the clock.               *)
(***************************************************************************)
EXTENDS Integers, FiniteSets, Sequences, TLC

\* ---------------------------------------------------------------- bounds
\* recipients of a campaign that runs alone
MaxRecipients == 3

\* calls of startCampaign, pauseCampaign and resumeCampaign in one run
MaxCalls == 3

\* invocations of startCampaign / resumeCampaign / processCampaignEmails that
\* are live at the same time
MaxLoops == 2

\* attempts a campaign may record before the model stops it (the stale
\* continuation of processCampaignEmails re-sends without end)
MaxAttempts == 3

\* hours of a model day (24 in the program)
HoursPerDay == 2

\* the value settings.maxEmailsPerHour takes when it is set
SmallPerHour == 2

\* the value dailyLimit takes when it is set
SmallDailyLimit == 2

\* the value hourlyRateLimit takes when it is set
SmallHourlyLimit == 1

\* verify() and sendMail() calls that the transport lets fail in one run
MaxTransportFailures == 1

\* lifecycle calls of one run that are made in a status that rejects them
MaxRejected == 1

\* calls of the tracking endpoints in one run
MaxTracks == 2

\* characters of the campaign id and of the address in a tracking token
MaxTokenLen == 2

\* scraping jobs of one run
MaxJobs == 2

\* pieces (a text or a placeholder) of a template
MaxPieces == 2

\* ------------------------------------------------------- program constants
\* settings.maxEmailsPerHour || 100
DefaultMaxPerHour == 100

\* two campaigns that use the same SMTP configuration
Campaigns == {1, 2}
Loops == 1..MaxLoops
Hours == 0..(HoursPerDay - 1)

VARIABLES
  totalEmails,     \* campaign.totalEmails, fixed by createCampaign
  campStatus,      \* campaign.status in the store ("absent": no such document)
  emails,          \* campaign.emails[i].status in the store
  emailError,      \* campaign.emails[i].error in the store ("none": not set)
  emailsSent,      \* campaign.emailsSent
  emailsDelivered, \* campaign.emailsDelivered
  emailsFailed,    \* campaign.emailsFailed
  maxEmailsPerHour,\* campaign.settings.maxEmailsPerHour (0 = not set)
  smtpConfig,      \* the stored SMTPConfig document
  dailyStats,      \* EmailService.dailyStats, keyed by hour of day
  transportCache,  \* EmailService.transportCache has the entry of the config
  hour,            \* new Date().getHours()
  resetDue,        \* the midnight timer of scheduleDailyReset has expired
  loops,           \* the live invocations, one record per slot: pc, the campaign,
                   \* the pending addresses of its campaign document (snap), the
                   \* position in pendingEmails (cur), emailsSentThisHour, the
                   \* error of the SendEmailResult, the setTimeout continuation
  handed,          \* history: times transporter.sendMail was called per recipient
  transportFailures, \* history: verify() and sendMail() calls that have thrown
  calls,           \* history: the lifecycle calls made so far; a pause call is
                   \* kept with the recipients handed to the transport before it
  updates,         \* the campaigns with an updateCampaign call between its
                   \* findOne and its findOneAndUpdate
  openCount,       \* campaign.emails[i].openCount
  clickCount,      \* campaign.emails[i].clickCount
  clickLinks,      \* campaign.emails[i].clickLinks, as the set of its values
  emailsOpened,    \* campaign.emailsOpened
  emailsClicked,   \* campaign.emailsClicked
  emailsReplied,   \* campaign.emailsReplied
  responses,       \* history: the tracking calls made so far with their results
  cacheKey,        \* host:port:username of the stored SMTPConfig document
  otherCached,     \* the other keys that EmailService.transportCache has
  jobs,            \* JobService.activeJobs
  cancelled,       \* history: the jobs for which cancelJob has returned true
  token,           \* the input of the tracking token: id, address and Date.now()
  parsed,          \* what parseTrackingId made of the token built from it
  template,        \* the subject or body given to personalizeTemplate
  variables,       \* the variables given to personalizeTemplate
  personalized     \* what personalizeTemplate returned

\* the state of updateCampaign, of TrackingService, of the keys of the
\* transport cache, of JobService, and the arguments and results of
\* parseTrackingId and personalizeTemplate
updateVars == <<updates>>
trackVars == <<openCount, clickCount, clickLinks, emailsOpened, emailsClicked, emailsReplied,
               responses>>
cacheVars == <<cacheKey, otherCached>>
jobVars == <<jobs, cancelled>>
tokenVars == <<token, parsed>>
templateVars == <<template, variables, personalized>>
sideVars == <<updateVars, trackVars, cacheVars, jobVars, tokenVars, templateVars>>

vars == <<totalEmails, campStatus, emails, emailError, emailsSent, emailsDelivered, emailsFailed,
          maxEmailsPerHour, smtpConfig, dailyStats, transportCache, hour,
          resetDue, loops, handed, transportFailures, calls, sideVars>>

storeVars == <<totalEmails, campStatus, emails, emailError, emailsSent, emailsDelivered,
               emailsFailed, maxEmailsPerHour>>

\* ---------------------------------------------------------------- helpers
IdleLoop ==
  [pc |-> "idle", camp |-> 0, snap |-> {}, cur |-> 0, emailsSentThisHour |-> 0,
   error |-> "none", timer |-> "none"]

\* campaign.emails.filter(email => email.status === 'pending') on a document
PendingOf(doc) == {r \in DOMAIN doc : doc[r] = "pending"}

\* the k-th element of pendingEmails, which keeps the stored order
Nth(S, k) == CHOOSE r \in S : Cardinality({x \in S : x < r}) = k - 1

\* the recipient the loop of slot l is working on
Current(l) == Nth(loops[l].snap, loops[l].cur)

FreeSlots == {l \in Loops : loops[l].pc = "idle"}

\* the slot a new invocation takes
NewSlot == CHOOSE l \in FreeSlots : \A m \in FreeSlots : l <= m

\* what an invocation leaves behind when it returns
Finished(lp) ==
  IF lp.timer = "none" THEN IdleLoop ELSE [lp EXCEPT !.pc = "done"]

\* an entry of the call history
Call(op, c, sent) == [op |-> op, camp |-> c, sent |-> sent]

\* the lifecycle calls made on campaign c, in order
CallsOf(c) == SelectSeq(calls, LAMBDA call : call.camp = c)

\* the operations of a call history
OpsOf(cs) == [i \in 1..Len(cs) |-> cs[i].op]

\* the lifecycle calls made so far that threw
Rejected ==
  {i \in DOMAIN calls : calls[i].op \in {"startRejected", "pauseRejected", "resumeRejected"}}

\* invocations of campaign c that are inside sendEmail
InFlight(c) ==
  Cardinality({l \in Loops : loops[l].camp = c /\
                 loops[l].pc \in {"sendmail", "record"}})

\* ------------------------------------------------------------------- Init
\* The configurations the runs start from: the number of recipients of each
\* campaign (0 = the campaign is not in the store), settings.maxEmailsPerHour,
\* the dailyLimit and hourlyRateLimit of the SMTP configuration (0 = not set /
\* no limit), its lastResetDate and what updateSMTPConfig and deleteSMTPConfig
\* have made of it since the campaigns were created (smtp).
SingleConfigs ==
  {[total |-> <<MaxRecipients, 0>>, perHour |-> SmallPerHour, daily |-> 0, hourly |-> 0, reset |-> "unset", smtp |-> "active"],
   [total |-> <<MaxRecipients, 0>>, perHour |-> SmallPerHour, daily |-> 0, hourly |-> SmallHourlyLimit, reset |-> "unset", smtp |-> "active"],
   [total |-> <<MaxRecipients, 0>>, perHour |-> 0, daily |-> SmallDailyLimit, hourly |-> 0, reset |-> "unset", smtp |-> "active"],
   [total |-> <<MaxRecipients, 0>>, perHour |-> 0, daily |-> SmallDailyLimit, hourly |-> 0, reset |-> "today", smtp |-> "active"]}

\* two campaigns of one recipient each on the same SMTP configuration
SharedConfigs ==
  {[total |-> <<1, 1>>, perHour |-> 0, daily |-> 0, hourly |-> SmallHourlyLimit, reset |-> "unset", smtp |-> "active"]}

\* a campaign whose SMTP configuration was deactivated or deleted after the
\* campaign was created
BrokenConfigs ==
  {[total |-> <<MaxRecipients, 0>>, perHour |-> 0, daily |-> 0, hourly |-> 0, reset |-> "unset", smtp |-> "inactive"],
   [total |-> <<MaxRecipients, 0>>, perHour |-> 0, daily |-> 0, hourly |-> 0, reset |-> "unset", smtp |-> "missing"]}

LiveConfigs ==
  {[total |-> <<MaxRecipients, 0>>, perHour |-> SmallPerHour, daily |-> 0, hourly |-> 0, reset |-> "unset", smtp |-> "active"]}

InitWith(cfg) ==
  /\ totalEmails = [c \in Campaigns |-> cfg.total[c]]
  /\ campStatus = [c \in Campaigns |-> IF cfg.total[c] > 0 THEN "draft" ELSE "absent"]
  /\ emails = [c \in Campaigns |-> [r \in 1..cfg.total[c] |-> "pending"]]
  /\ emailError = [c \in Campaigns |-> [r \in 1..cfg.total[c] |-> "none"]]
  /\ emailsSent = [c \in Campaigns |-> 0]
  /\ emailsDelivered = [c \in Campaigns |-> 0]
  /\ emailsFailed = [c \in Campaigns |-> 0]
  /\ maxEmailsPerHour = [c \in Campaigns |-> cfg.perHour]
  /\ smtpConfig = [dailyLimit |-> cfg.daily, hourlyRateLimit |-> cfg.hourly,
                   emailsSentToday |-> 0, totalEmailsSent |-> 0, emailsFailed |-> 0,
                   lastResetDate |-> cfg.reset, exists |-> cfg.smtp # "missing",
                   isActive |-> cfg.smtp = "active"]
  /\ dailyStats = [h \in Hours |-> [sent |-> 0, failed |-> 0]]
  /\ transportCache = FALSE
  /\ hour = 0
  /\ resetDue = FALSE
  /\ loops = [l \in Loops |-> IdleLoop]
  /\ handed = [c \in Campaigns |-> [r \in 1..cfg.total[c] |-> 0]]
  /\ transportFailures = 0
  /\ calls = <<>>

\* no updateCampaign call is under way
UpdateIdle == updates = {}

\* the tracking fields of a campaign that createCampaign has stored
TrackIdle ==
  /\ openCount = [c \in Campaigns |-> [r \in DOMAIN emails[c] |-> 0]]
  /\ clickCount = [c \in Campaigns |-> [r \in DOMAIN emails[c] |-> 0]]
  /\ clickLinks = [c \in Campaigns |-> [r \in DOMAIN emails[c] |-> {}]]
  /\ emailsOpened = [c \in Campaigns |-> 0]
  /\ emailsClicked = [c \in Campaigns |-> 0]
  /\ emailsReplied = [c \in Campaigns |-> 0]
  /\ responses = <<>>

\* the transport cache of a new EmailService has no entry
CacheIdle == cacheKey = 1 /\ otherCached = {}

\* the activeJobs map of a new JobService is empty
JobIds == 1..MaxJobs
NoJob == [status |-> "absent", error |-> "none", pc |-> "none"]
JobIdle == jobs = [j \in JobIds |-> NoJob] /\ cancelled = {}

\* parseTrackingId and personalizeTemplate have not been called
NotCalled == [done |-> FALSE, threw |-> FALSE, value |-> <<>>]
TokenIdle == token = [campaignId |-> <<>>, address |-> <<>>, millis |-> <<>>] /\ parsed = NotCalled
TemplateIdle == template = <<>> /\ variables = <<>> /\ personalized = NotCalled

SideIdle == UpdateIdle /\ TrackIdle /\ CacheIdle /\ JobIdle /\ TokenIdle /\ TemplateIdle

Init ==
  /\ \E cfg \in SingleConfigs \cup SharedConfigs \cup BrokenConfigs : InitWith(cfg)
  /\ SideIdle

InitLive == (\E cfg \in LiveConfigs : InitWith(cfg)) /\ SideIdle

\* settings.maxEmailsPerHour || 100
MaxPerHour(c) == IF maxEmailsPerHour[c] = 0 THEN DefaultMaxPerHour ELSE maxEmailsPerHour[c]

\* checkAndUpdateRateLimit: the daily counter is written back as 0 when
\* lastResetDate is another day than today; an unset lastResetDate reads as today
NeedsReset(config) == config.lastResetDate = "past"

\* checkAndUpdateRateLimit: the limit checks, made on the document that
\* sendEmail loaded before the reset was written
DailyDenied(config) ==
  config.dailyLimit > 0 /\ config.emailsSentToday >= config.dailyLimit

HourlyDenied(config, stats, h) ==
  config.hourlyRateLimit > 0 /\ stats[h].sent >= config.hourlyRateLimit

\* updateSMTPStats: the $inc document
UpdateSMTPStatsDoc(config, success) ==
  [config EXCEPT !.emailsSentToday = @ + 1,
                 !.totalEmailsSent = @ + 1,
                 !.emailsFailed = IF success THEN @ ELSE @ + 1]

\* updateDailyStats with a failed attempt counted as sent as well
UpdateDailyStatsDocAllSent(stats, h, success) ==
  [stats EXCEPT ![h] = IF success THEN [@ EXCEPT !.sent = @ + 1]
                                  ELSE [@ EXCEPT !.sent = @ + 1, !.failed = @ + 1]]

\* updateDailyStats: the bucket of the current hour
UpdateDailyStatsDoc(stats, h, success) ==
  [stats EXCEPT ![h] = IF success THEN [@ EXCEPT !.sent = @ + 1]
                                  ELSE [@ EXCEPT !.failed = @ + 1]]

\* ---------------------------------------------------------------- actions
\* getTransporter with the new transporter put into the cache before verify()
GetTransporterCacheFirst(l) ==
  \/ /\ transportCache
     /\ loops' = [loops EXCEPT ![l] = [@ EXCEPT !.pc = "sendmail", !.error = "none"]]
     /\ UNCHANGED <<transportCache, transportFailures>>
  \/ /\ ~transportCache
     /\ transportCache' = TRUE
     /\ loops' = [loops EXCEPT ![l] = [@ EXCEPT !.pc = "sendmail", !.error = "none"]]
     /\ UNCHANGED transportFailures
  \/ /\ ~transportCache
     /\ transportFailures < MaxTransportFailures
     /\ transportFailures' = transportFailures + 1
     /\ loops' = [loops EXCEPT ![l] = [@ EXCEPT !.pc = "record", !.error = "verify"]]
     /\ transportCache' = TRUE

\* getTransporter: the cached transporter, or a new one that is verified and
\* cached only when verify() succeeds; a failed verify() throws
GetTransporter(l) ==
  \/ /\ transportCache
     /\ loops' = [loops EXCEPT ![l] = [@ EXCEPT !.pc = "sendmail", !.error = "none"]]
     /\ UNCHANGED <<transportCache, transportFailures>>
  \/ /\ ~transportCache
     /\ transportCache' = TRUE
     /\ loops' = [loops EXCEPT ![l] = [@ EXCEPT !.pc = "sendmail", !.error = "none"]]
     /\ UNCHANGED transportFailures
  \/ /\ ~transportCache
     /\ transportFailures < MaxTransportFailures
     /\ transportFailures' = transportFailures + 1
     /\ loops' = [loops EXCEPT ![l] = [@ EXCEPT !.pc = "record", !.error = "verify"]]
     /\ UNCHANGED transportCache

\* startCampaign up to its status check; the update is a second store call
StartCheck(c) ==
  /\ Len(calls) < MaxCalls
  /\ calls' = Append(calls, Call("start", c, {}))
  /\ FreeSlots # {}
  /\ campStatus[c] \in {"draft", "paused"}
  /\ loops' = [loops EXCEPT ![NewSlot] = [IdleLoop EXCEPT !.pc = "start", !.camp = c]]
  /\ UNCHANGED <<storeVars, smtpConfig, dailyStats, transportCache, hour, resetDue,
                 handed, transportFailures>>
  /\ UNCHANGED sideVars

\* startCampaign: findByIdAndUpdate(status running) and the call of
\* processCampaignEmails on the returned document
StartUpdate(l) ==
  /\ loops[l].pc = "start"
  /\ LET c == loops[l].camp IN
       /\ campStatus' = [campStatus EXCEPT ![c] = "running"]
       /\ loops' = [loops EXCEPT ![l] = [@ EXCEPT !.pc = "process",
                                                 !.snap = PendingOf(emails[c])]]
  /\ UNCHANGED <<totalEmails, emails, emailsSent, emailsDelivered, emailsFailed, maxEmailsPerHour,
                 smtpConfig, dailyStats, transportCache, hour, resetDue, handed,
                 transportFailures>>
  /\ UNCHANGED <<calls, emailError>>
  /\ UNCHANGED sideVars

\* startCampaign on a campaign that is neither draft nor paused: it throws
\* before it has written anything
StartRejected(c) ==
  /\ Len(calls) < MaxCalls
  /\ Cardinality(Rejected) < MaxRejected
  /\ calls' = Append(calls, Call("startRejected", c, {}))
  /\ campStatus[c] \notin {"absent", "draft", "paused"}
  /\ UNCHANGED <<storeVars, smtpConfig, dailyStats, transportCache, hour, resetDue,
                 loops, handed, transportFailures>>
  /\ UNCHANGED sideVars

\* pauseCampaign with a filter that leaves out the status
PauseCampaignAnyStatus(c) ==
  /\ Len(calls) < MaxCalls
  /\ calls' = Append(calls, Call("pause", c, {r \in DOMAIN handed[c] : handed[c][r] > 0}))
  /\ campStatus[c] # "absent"
  /\ campStatus' = [campStatus EXCEPT ![c] = "paused"]
  /\ UNCHANGED <<totalEmails, emails, emailsSent, emailsDelivered, emailsFailed, maxEmailsPerHour,
                 smtpConfig, dailyStats, transportCache, hour, resetDue, loops, handed,
                 transportFailures, emailError>>
  /\ UNCHANGED sideVars

\* pauseCampaign: findOneAndUpdate({status running}, {status paused})
PauseCampaign(c) ==
  /\ Len(calls) < MaxCalls
  /\ calls' = Append(calls, Call("pause", c, {r \in DOMAIN handed[c] : handed[c][r] > 0}))
  /\ campStatus[c] = "running"
  /\ campStatus' = [campStatus EXCEPT ![c] = "paused"]
  /\ UNCHANGED <<totalEmails, emails, emailsSent, emailsDelivered, emailsFailed, maxEmailsPerHour,
                 smtpConfig, dailyStats, transportCache, hour, resetDue, loops, handed,
                 transportFailures, emailError>>
  /\ UNCHANGED sideVars

\* pauseCampaign when the campaign that findOneAndUpdate looks for is not
\* running: it throws
PauseRejected(c) ==
  /\ Len(calls) < MaxCalls
  /\ Cardinality(Rejected) < MaxRejected
  /\ calls' = Append(calls, Call("pauseRejected", c, {}))
  /\ campStatus[c] \notin {"absent", "running"}
  /\ UNCHANGED <<storeVars, smtpConfig, dailyStats, transportCache, hour, resetDue,
                 loops, handed, transportFailures>>
  /\ UNCHANGED sideVars

\* resumeCampaign when the campaign that findOneAndUpdate looks for is not
\* paused: it throws
ResumeRejected(c) ==
  /\ Len(calls) < MaxCalls
  /\ Cardinality(Rejected) < MaxRejected
  /\ calls' = Append(calls, Call("resumeRejected", c, {}))
  /\ campStatus[c] \notin {"absent", "paused"}
  /\ UNCHANGED <<storeVars, smtpConfig, dailyStats, transportCache, hour, resetDue,
                 loops, handed, transportFailures>>
  /\ UNCHANGED sideVars

\* resumeCampaign: findOneAndUpdate({status paused}, {status running}) and the
\* call of processCampaignEmails on the returned document
ResumeCampaign(c) ==
  /\ Len(calls) < MaxCalls
  /\ calls' = Append(calls, Call("resume", c, {}))
  /\ FreeSlots # {}
  /\ campStatus[c] = "paused"
  /\ campStatus' = [campStatus EXCEPT ![c] = "running"]
  /\ loops' = [loops EXCEPT ![NewSlot] = [IdleLoop EXCEPT !.pc = "process", !.camp = c,
                                                         !.snap = PendingOf(emails[c])]]
  /\ UNCHANGED <<totalEmails, emails, emailsSent, emailsDelivered, emailsFailed, maxEmailsPerHour,
                 smtpConfig, dailyStats, transportCache, hour, resetDue, handed,
                 transportFailures, emailError>>
  /\ UNCHANGED sideVars

\* processCampaignEmails before its loop: pendingEmails of the document it was
\* given; none pending completes the campaign; a missing SMTP configuration
\* throws, which ends the invocation
Process(l) ==
  /\ loops[l].pc = "process"
  /\ LET c == loops[l].camp IN
       IF loops[l].snap = {}
         THEN /\ campStatus' = [campStatus EXCEPT ![c] = "completed"]
              /\ loops' = [loops EXCEPT ![l] = Finished(@)]
         ELSE IF ~smtpConfig.exists
           THEN /\ loops' = [loops EXCEPT ![l] = Finished(@)]
                /\ UNCHANGED campStatus
           ELSE /\ loops' = [loops EXCEPT ![l] = [@ EXCEPT !.pc = "iter", !.cur = 1,
                                                          !.emailsSentThisHour = 0]]
                /\ UNCHANGED campStatus
  /\ UNCHANGED <<totalEmails, emails, emailsSent, emailsDelivered, emailsFailed, maxEmailsPerHour,
                 smtpConfig, dailyStats, transportCache, hour, resetDue, handed,
                 transportFailures>>
  /\ UNCHANGED <<calls, emailError>>
  /\ UNCHANGED sideVars

\* one turn of the for loop up to the call of transporter.sendMail: the hourly
\* budget of the pass, then sendEmail's findById, isActive test,
\* checkAndUpdateRateLimit and getTransporter.  An error thrown on the way is
\* caught by sendEmail and becomes the error of its result.
Iter(l) ==
  /\ loops[l].pc = "iter"
  /\ LET c == loops[l].camp
         config == smtpConfig
     IN
       IF loops[l].cur > Cardinality(loops[l].snap)
         THEN /\ loops' = [loops EXCEPT ![l] = [@ EXCEPT !.pc = "check"]]
              /\ UNCHANGED <<smtpConfig, transportCache, transportFailures>>
         ELSE IF loops[l].emailsSentThisHour >= MaxPerHour(c)
           THEN \* setTimeout(() => this.processCampaignEmails(campaign), delayMs); break
                /\ loops' = [loops EXCEPT ![l] = [@ EXCEPT !.pc = "check",
                                                          !.timer = "waiting"]]
                /\ UNCHANGED <<smtpConfig, transportCache, transportFailures>>
           ELSE /\ emailsSent[c] + InFlight(c) < MaxAttempts
                /\ IF ~config.exists \/ ~config.isActive
                     THEN /\ loops' = [loops EXCEPT ![l] = [@ EXCEPT !.pc = "record",
                                                                    !.error = "inactive"]]
                          /\ UNCHANGED <<smtpConfig, transportCache, transportFailures>>
                     ELSE /\ smtpConfig' =
                               IF NeedsReset(config)
                                 THEN [smtpConfig EXCEPT !.emailsSentToday = 0,
                                                         !.lastResetDate = "today"]
                                 ELSE smtpConfig
                          /\ IF DailyDenied(config)
                               THEN /\ loops' = [loops EXCEPT ![l] =
                                         [@ EXCEPT !.pc = "record", !.error = "daily"]]
                                    /\ UNCHANGED <<transportCache, transportFailures>>
                             ELSE IF HourlyDenied(config, dailyStats, hour)
                               THEN /\ loops' = [loops EXCEPT ![l] =
                                         [@ EXCEPT !.pc = "record", !.error = "hourly"]]
                                    /\ UNCHANGED <<transportCache, transportFailures>>
                             ELSE GetTransporter(l)
  /\ UNCHANGED <<storeVars, dailyStats, hour, resetDue, handed>>
  /\ UNCHANGED calls
  /\ UNCHANGED sideVars

\* transporter.sendMail: the message is handed to the transport, which
\* accepts or rejects it
SendMail(l) ==
  /\ loops[l].pc = "sendmail"
  /\ LET c == loops[l].camp
         r == Current(l)
     IN handed' = [handed EXCEPT ![c][r] = @ + 1]
  /\ \/ /\ loops' = [loops EXCEPT ![l] = [@ EXCEPT !.pc = "record", !.error = "none"]]
        /\ UNCHANGED transportFailures
     \/ /\ transportFailures < MaxTransportFailures
        /\ transportFailures' = transportFailures + 1
        /\ loops' = [loops EXCEPT ![l] = [@ EXCEPT !.pc = "record", !.error = "transport"]]
  /\ UNCHANGED <<storeVars, smtpConfig, dailyStats, transportCache, hour, resetDue>>
  /\ UNCHANGED calls
  /\ UNCHANGED sideVars

\* the error stored with a recipient when every error has one fixed text
ResultErrorGeneric(error, stored) ==
  IF error = "none" THEN {"none", stored} ELSE {"failed"}

\* 'emails.$.error': result.error in the updateOne of the loop.  result.error is
\* the message of the error that sendEmail caught; it is undefined when the
\* send succeeded, and an undefined value in $set either is dropped from the
\* update or unsets the field, so an error stored earlier stays or goes
ResultError(error, stored) ==
  IF error = "none" THEN {"none", stored} ELSE {error}

\* the end of sendEmail and the bookkeeping of the loop: updateSMTPStats and
\* updateDailyStats (on the success path and in the catch block alike), then
\* the updateOne that records the result on the recipient and the campaign
\* counters, then emailsSentThisHour++
Record(l) ==
  /\ loops[l].pc = "record"
  /\ LET c == loops[l].camp
         r == Current(l)
         success == loops[l].error = "none"
     IN
       /\ smtpConfig' = UpdateSMTPStatsDoc(smtpConfig, success)
       /\ dailyStats' = UpdateDailyStatsDoc(dailyStats, hour, success)
       /\ emails' = [emails EXCEPT ![c][r] = IF success THEN "sent" ELSE "failed"]
       /\ \E e \in ResultError(loops[l].error, emailError[c][r]) :
            emailError' = [emailError EXCEPT ![c][r] = e]
       /\ emailsSent' = [emailsSent EXCEPT ![c] = @ + 1]
       /\ emailsDelivered' = [emailsDelivered EXCEPT ![c] = IF success THEN @ + 1 ELSE @]
       /\ emailsFailed' = [emailsFailed EXCEPT ![c] = IF success THEN @ ELSE @ + 1]
  /\ loops' = [loops EXCEPT ![l] = [@ EXCEPT !.pc = "iter", !.cur = @ + 1,
                                            !.emailsSentThisHour = @ + 1]]
  /\ UNCHANGED <<totalEmails, campStatus, maxEmailsPerHour, transportCache, hour, resetDue, handed,
                 transportFailures>>
  /\ UNCHANGED calls
  /\ UNCHANGED sideVars

\* processCampaignEmails after its loop: the campaign is read again and
\* completed when no address is pending
Check(l) ==
  /\ loops[l].pc = "check"
  /\ LET c == loops[l].camp IN
       campStatus' = IF PendingOf(emails[c]) = {}
                       THEN [campStatus EXCEPT ![c] = "completed"]
                       ELSE campStatus
  /\ loops' = [loops EXCEPT ![l] = Finished(@)]
  /\ UNCHANGED <<totalEmails, emails, emailsSent, emailsDelivered, emailsFailed, maxEmailsPerHour,
                 smtpConfig, dailyStats, transportCache, hour, resetDue, handed,
                 transportFailures>>
  /\ UNCHANGED <<calls, emailError>>
  /\ UNCHANGED sideVars

\* the setTimeout callback of processCampaignEmails: it calls
\* processCampaignEmails with the campaign document of the pass that set it.
\* It runs after that pass has returned (the delay reaches the next hour).
Continuation(l) ==
  /\ loops[l].pc = "done"
  /\ loops[l].timer = "due"
  /\ loops' = [loops EXCEPT ![l] = [IdleLoop EXCEPT !.pc = "process",
                                                   !.camp = loops[l].camp,
                                                   !.snap = loops[l].snap]]
  /\ UNCHANGED <<storeVars, smtpConfig, dailyStats, transportCache, hour, resetDue,
                 handed, transportFailures>>
  /\ UNCHANGED calls
  /\ UNCHANGED sideVars

\* the clock reaches the next hour; at midnight the date changes.  A timer
\* that has expired runs before the following hour begins.
Tick ==
  /\ ~resetDue
  /\ \A l \in Loops : loops[l].timer # "due"
  /\ hour' = (hour + 1) % HoursPerDay
  /\ loops' = [l \in Loops |-> IF loops[l].timer = "waiting"
                                 THEN [loops[l] EXCEPT !.timer = "due"]
                                 ELSE loops[l]]
  /\ IF hour' = 0
       THEN /\ resetDue' = TRUE
            /\ smtpConfig' = [smtpConfig EXCEPT !.lastResetDate =
                                IF @ = "today" THEN "past" ELSE @]
       ELSE UNCHANGED <<resetDue, smtpConfig>>
  /\ UNCHANGED <<storeVars, dailyStats, transportCache, handed, transportFailures>>
  /\ UNCHANGED calls
  /\ UNCHANGED sideVars

\* the setTimeout callback of scheduleDailyReset
DailyReset ==
  /\ resetDue
  /\ dailyStats' = [h \in Hours |-> [sent |-> 0, failed |-> 0]]
  /\ resetDue' = FALSE
  /\ UNCHANGED <<storeVars, smtpConfig, transportCache, hour, loops, handed,
                 transportFailures>>
  /\ UNCHANGED calls
  /\ UNCHANGED sideVars

Next ==
  \/ \E c \in Campaigns : StartCheck(c)
  \/ \E l \in Loops : StartUpdate(l)
  \/ \E c \in Campaigns : StartRejected(c)
  \/ \E c \in Campaigns : PauseCampaign(c)
  \/ \E c \in Campaigns : PauseRejected(c)
  \/ \E c \in Campaigns : ResumeCampaign(c)
  \/ \E c \in Campaigns : ResumeRejected(c)
  \/ \E l \in Loops : Process(l)
  \/ \E l \in Loops : Iter(l)
  \/ \E l \in Loops : SendMail(l)
  \/ \E l \in Loops : Record(l)
  \/ \E l \in Loops : Check(l)
  \/ \E l \in Loops : Continuation(l)
  \/ Tick
  \/ DailyReset

Spec == Init /\ [][Next]_vars

\* The steps of a dispatch pass, its timers and the clock go on; the calls of
\* users (start, pause, resume) need not happen.
Fairness ==
  /\ \A l \in Loops :
       /\ WF_vars(StartUpdate(l)) /\ WF_vars(Process(l)) /\ WF_vars(Iter(l))
       /\ WF_vars(SendMail(l)) /\ WF_vars(Record(l)) /\ WF_vars(Check(l))
       /\ WF_vars(Continuation(l))
  /\ WF_vars(Tick)
  /\ WF_vars(DailyReset)

LiveSpec == InitLive /\ [][Next]_vars /\ Fairness

TypeOK ==
  /\ campStatus \in [Campaigns -> {"absent", "draft", "running", "paused", "completed",
                                "failed"}]
  /\ \A c \in Campaigns : \A r \in DOMAIN emails[c] :
       emails[c][r] \in {"pending", "sent", "failed", "opened", "replied"}
  /\ hour \in Hours
  /\ \A l \in Loops : loops[l].pc \in {"idle", "start", "process", "iter", "sendmail",
                                       "record", "check", "done"}

\* ---------------------------------------------------------- updateCampaign
\* updateCampaign up to its status check: findOne, and the campaign is there
\* and not running; the write is a second store call
UpdateCheck(c) ==
  /\ Len(calls) < MaxCalls
  /\ calls' = Append(calls, Call("update", c, {}))
  /\ campStatus[c] \notin {"absent", "running"}
  /\ c \notin updates
  /\ updates' = updates \cup {c}
  /\ UNCHANGED <<storeVars, smtpConfig, dailyStats, transportCache, hour, resetDue,
                 loops, handed, transportFailures>>
  /\ UNCHANGED <<trackVars, cacheVars, jobVars, tokenVars, templateVars>>

\* updateCampaign: findOneAndUpdate({_id, userId}, {$set: updates}), here with
\* updates = {settings: {maxEmailsPerHour: v}}; the filter has no status
UpdateWrite(c, v) ==
  /\ c \in updates
  /\ updates' = updates \ {c}
  /\ maxEmailsPerHour' = [maxEmailsPerHour EXCEPT ![c] = v]
  /\ UNCHANGED <<totalEmails, campStatus, emails, emailError, emailsSent, emailsDelivered,
                 emailsFailed, smtpConfig, dailyStats, transportCache, hour, resetDue,
                 loops, handed, transportFailures, calls>>
  /\ UNCHANGED <<trackVars, cacheVars, jobVars, tokenVars, templateVars>>

\* updateCampaign on a campaign that findOne does not find or finds running:
\* it throws before the write
UpdateRejected(c) ==
  /\ Len(calls) < MaxCalls
  /\ calls' = Append(calls, Call("updateRejected", c, {}))
  /\ campStatus[c] \in {"absent", "running"}
  /\ UNCHANGED <<storeVars, smtpConfig, dailyStats, transportCache, hour, resetDue,
                 loops, handed, transportFailures>>
  /\ UNCHANGED sideVars

\* updateCampaign next to the lifecycle calls that change the status
UpdateNext ==
  \/ \E c \in Campaigns : StartCheck(c)
  \/ \E l \in Loops : StartUpdate(l)
  \/ \E c \in Campaigns : PauseCampaign(c)
  \/ \E c \in Campaigns : UpdateCheck(c)
  \/ \E c \in Campaigns : \E v \in 1..SmallPerHour : UpdateWrite(c, v)
  \/ \E c \in Campaigns : UpdateRejected(c)

UpdateSpec == Init /\ [][UpdateNext]_vars

\* ---------------------------------------------------------- TrackingService
\* Strings are sequences of characters.  The id string of a campaign, the
\* address of its r-th recipient and the digits of Date.now().
Digits == <<"1", "2", "3">>
Letters == <<"x", "y", "z">>
CampaignId(c) == <<Digits[c]>>
Address(r) == <<Letters[r]>>
Now == <<"7">>

\* trackingId.split('_')
RECURSIVE Split(_)
Split(s) ==
  IF \A i \in 1..Len(s) : s[i] # "_"
    THEN <<s>>
    ELSE LET i == CHOOSE j \in 1..Len(s) : s[j] = "_" /\ \A k \in 1..(j - 1) : s[k] # "_"
         IN <<SubSeq(s, 1, i - 1)>> \o Split(SubSeq(s, i + 1, Len(s)))

\* parseTrackingId with the address taken from the last two parts
ParseTrackingIdShifted(trackingId) ==
  LET parts == Split(trackingId)
  IN IF Len(parts) < 3 THEN <<>> ELSE <<parts[2], parts[3]>>

\* parseTrackingId: [parts[0], parts[1]]; the empty tuple stands for the
\* thrown 'invalid id format'
ParseTrackingId(trackingId) ==
  LET parts == Split(trackingId)
  IN IF Len(parts) < 3 THEN <<>> ELSE <<parts[1], parts[2]>>

\* the trackingId that processCampaignEmails gives to sendEmail
TrackingId(campaignId, address, millis) ==
  campaignId \o <<"_">> \o address \o <<"_">> \o millis

\* the token in the message sent to recipient r of campaign c
TokenOf(c, r) == TrackingId(CampaignId(c), Address(r), Now)

\* a token of two parts
ShortToken == CampaignId(1) \o <<"_">> \o Address(1)

\* the tokens the tracking endpoints are called with: that of the first
\* recipient of each campaign, in the store or not, and the short one
Tokens == {TokenOf(c, 1) : c \in Campaigns} \cup {ShortToken}

Links == {"a", "b"}

\* the element that the filter {_id: campaignId, 'emails.email': email}
\* selects, as a set of pairs (campaign, recipient)
Matched(id) ==
  {cr \in Campaigns \X (1..MaxRecipients) :
     /\ cr[2] \in DOMAIN emails[cr[1]]
     /\ CampaignId(cr[1]) = id[1]
     /\ Address(cr[2]) = id[2]}

\* 'emails.$.status': st on the selected element
SetStatus(id, st) ==
  [c \in Campaigns |-> [r \in DOMAIN emails[c] |->
     IF <<c, r>> \in Matched(id) THEN st ELSE emails[c][r]]]

\* an entry of the history of tracking calls
Response(op, trackingId, success) == [op |-> op, token |-> trackingId, success |-> success]

\* trackOpen.  A token that parseTrackingId rejects ends in the catch block.
\* The update document has the operator $Inc, which is no update operator:
\* the store rejects the update (catch block), or the operator is dropped and
\* the $set of the document is applied.  No outcome counts the open.
TrackOpen(trackingId) ==
  /\ Len(responses) < MaxTracks
  /\ LET id == ParseTrackingId(trackingId) IN
       \/ /\ id = <<>>
          /\ responses' = Append(responses, Response("open", trackingId, FALSE))
          /\ UNCHANGED emails
       \/ /\ id # <<>>
          /\ responses' = Append(responses, Response("open", trackingId, FALSE))
          /\ UNCHANGED emails
       \/ /\ id # <<>>
          /\ responses' = Append(responses, Response("open", trackingId, TRUE))
          /\ emails' = SetStatus(id, "opened")
  /\ UNCHANGED <<totalEmails, campStatus, emailError, emailsSent, emailsDelivered, emailsFailed,
                 maxEmailsPerHour, smtpConfig, dailyStats, transportCache, hour, resetDue,
                 loops, handed, transportFailures, calls>>
  /\ UNCHANGED <<openCount, clickCount, clickLinks, emailsOpened, emailsClicked, emailsReplied>>
  /\ UNCHANGED <<updateVars, cacheVars, jobVars, tokenVars, templateVars>>

\* trackingClick.  $inc: {emailsClicked: 1} on the campaign that the filter
\* selects; 'emails.$.clickLinks' is no path of the schema and the $addToSet
\* names the path 'email.$.clickLinks': the paths are stripped from the
\* update, or the $set makes the link the value of clickLinks, or the store
\* rejects the update (catch block).  No outcome changes clickCount or status.
TrackingClick(trackingId, link) ==
  /\ Len(responses) < MaxTracks
  /\ LET id == ParseTrackingId(trackingId) IN
       \/ /\ id = <<>>
          /\ responses' = Append(responses, Response("click", trackingId, FALSE))
          /\ UNCHANGED <<emailsClicked, clickLinks>>
       \/ /\ id # <<>>
          /\ responses' = Append(responses, Response("click", trackingId, FALSE))
          /\ UNCHANGED <<emailsClicked, clickLinks>>
       \/ /\ id # <<>>
          /\ responses' = Append(responses, Response("click", trackingId, TRUE))
          /\ emailsClicked' = [c \in Campaigns |->
               IF \E r \in 1..MaxRecipients : <<c, r>> \in Matched(id)
                 THEN emailsClicked[c] + 1 ELSE emailsClicked[c]]
          /\ \/ UNCHANGED clickLinks
             \/ clickLinks' = [c \in Campaigns |-> [r \in DOMAIN emails[c] |->
                  IF <<c, r>> \in Matched(id) THEN {link} ELSE clickLinks[c][r]]]
  /\ UNCHANGED <<storeVars, smtpConfig, dailyStats, transportCache, hour, resetDue,
                 loops, handed, transportFailures, calls>>
  /\ UNCHANGED <<openCount, clickCount, emailsOpened, emailsReplied>>
  /\ UNCHANGED <<updateVars, cacheVars, jobVars, tokenVars, templateVars>>

\* trackReply with the id and an address of a campaign of the store:
\* $inc: {emailsReplied: 1} and 'emails.$.status': 'replied'.  The $set also
\* names the path 'emails.$,repliedAt': the path is stripped from the update,
\* or the store rejects the update and the call ends with that error.
TrackReply(c, r) ==
  /\ Len(responses) < MaxTracks
  /\ r \in DOMAIN emails[c]
  /\ \/ /\ responses' = Append(responses, Response("reply", TokenOf(c, r), TRUE))
        /\ emailsReplied' = [emailsReplied EXCEPT ![c] = @ + 1]
        /\ emails' = SetStatus(<<CampaignId(c), Address(r)>>, "replied")
     \/ /\ responses' = Append(responses, Response("reply", TokenOf(c, r), FALSE))
        /\ UNCHANGED <<emailsReplied, emails>>
  /\ UNCHANGED <<totalEmails, campStatus, emailError, emailsSent, emailsDelivered, emailsFailed,
                 maxEmailsPerHour, smtpConfig, dailyStats, transportCache, hour, resetDue,
                 loops, handed, transportFailures, calls>>
  /\ UNCHANGED <<openCount, clickCount, clickLinks, emailsOpened, emailsClicked>>
  /\ UNCHANGED <<updateVars, cacheVars, jobVars, tokenVars, templateVars>>

\* the tracking endpoints next to the dispatch pass of a campaign of one
\* recipient
TrackConfigs ==
  {[total |-> <<1, 0>>, perHour |-> 0, daily |-> 0, hourly |-> 0, reset |-> "unset", smtp |-> "active"]}

TrackInit == (\E cfg \in TrackConfigs : InitWith(cfg)) /\ SideIdle

TrackNext ==
  \/ \E c \in Campaigns : StartCheck(c)
  \/ \E l \in Loops : StartUpdate(l)
  \/ \E l \in Loops : Process(l)
  \/ \E l \in Loops : Iter(l)
  \/ \E l \in Loops : SendMail(l)
  \/ \E l \in Loops : Record(l)
  \/ \E l \in Loops : Check(l)
  \/ \E trackingId \in Tokens : TrackOpen(trackingId)
  \/ \E trackingId \in Tokens : \E link \in Links : TrackingClick(trackingId, link)
  \/ \E c \in Campaigns : \E r \in 1..MaxRecipients : TrackReply(c, r)

TrackSpec == TrackInit /\ [][TrackNext]_vars

\* -------------------------------------------------- the tracking token
\* the strings of at most n characters of the alphabet
RECURSIVE StringsOver(_, _)
StringsOver(alphabet, n) ==
  IF n = 0 THEN {<<>>}
  ELSE LET shorter == StringsOver(alphabet, n - 1)
       IN shorter \cup {Append(s, ch) : s \in shorter, ch \in alphabet}

\* the id strings, addresses and Date.now() values a token is built from; the
\* delimiter is a character of the alphabets
TokenInputs ==
  [campaignId : StringsOver({"1", "_"}, MaxTokenLen),
   address : StringsOver({"x", "_"}, MaxTokenLen),
   millis : {<<"7">>, <<"7", "8">>}]

TokenInit ==
  /\ \E cfg \in TrackConfigs : InitWith(cfg)
  /\ UpdateIdle /\ TrackIdle /\ CacheIdle /\ JobIdle /\ TemplateIdle
  /\ token \in TokenInputs
  /\ parsed = NotCalled

\* parseTrackingId on the token that processCampaignEmails builds
ParseToken ==
  /\ ~parsed.done
  /\ LET result == ParseTrackingId(TrackingId(token.campaignId, token.address, token.millis))
     IN parsed' = [done |-> TRUE, threw |-> result = <<>>, value |-> result]
  /\ UNCHANGED <<storeVars, smtpConfig, dailyStats, transportCache, hour, resetDue,
                 loops, handed, transportFailures, calls>>
  /\ UNCHANGED <<updateVars, trackVars, cacheVars, jobVars, token, templateVars>>

TokenNext == ParseToken

TokenSpec == TokenInit /\ [][TokenNext]_vars

\* ------------------------------------------------- the transport cache
\* the values of host:port:username that the SMTP configuration takes
SMTPKeys == {1, 2}

\* the keys that have an entry in transportCache
CachedKeys == otherCached \cup (IF transportCache THEN {cacheKey} ELSE {})

\* updateSMTPConfig: findOneAndUpdate({$set: updates}, {new: true}), then
\* transportCache.delete of the key made from the updated document.  k is
\* host:port:username after the update: the same key when the update changes
\* other fields (the password), another key when it changes one of the three.
UpdateSMTPConfig(k) ==
  /\ smtpConfig.exists
  /\ cacheKey' = k
  /\ otherCached' = CachedKeys \ {k}
  /\ transportCache' = FALSE
  /\ UNCHANGED <<storeVars, smtpConfig, dailyStats, hour, resetDue, loops, handed,
                 transportFailures, calls>>
  /\ UNCHANGED <<updateVars, trackVars, jobVars, tokenVars, templateVars>>

\* a campaign without limits, so that each of its recipients is one acquire
CacheConfigs ==
  {[total |-> <<MaxRecipients, 0>>, perHour |-> 0, daily |-> 0, hourly |-> 0, reset |-> "unset", smtp |-> "active"]}

CacheInit == (\E cfg \in CacheConfigs : InitWith(cfg)) /\ SideIdle

\* the dispatch pass of the campaign next to updateSMTPConfig
CacheNext ==
  \/ \E c \in Campaigns : StartCheck(c)
  \/ \E l \in Loops : StartUpdate(l)
  \/ \E l \in Loops : Process(l)
  \/ \E l \in Loops : Iter(l)
  \/ \E l \in Loops : SendMail(l)
  \/ \E l \in Loops : Record(l)
  \/ \E l \in Loops : Check(l)
  \/ \E k \in SMTPKeys : UpdateSMTPConfig(k)

CacheSpec == CacheInit /\ [][CacheNext]_vars

\* ----------------------------------------------------------------- JobService
\* runScrapingJob up to its first await: the job is put into activeJobs with
\* status running; generateJobId gives an id that no job has
RunScrapingJob(j) ==
  /\ jobs[j].status = "absent"
  /\ \A i \in JobIds : i < j => jobs[i].status # "absent"
  /\ jobs' = [jobs EXCEPT ![j] = [status |-> "running", error |-> "none", pc |-> "search"]]
  /\ UNCHANGED cancelled
  /\ UNCHANGED <<storeVars, smtpConfig, dailyStats, transportCache, hour, resetDue,
                 loops, handed, transportFailures, calls>>
  /\ UNCHANGED <<updateVars, trackVars, cacheVars, tokenVars, templateVars>>

\* runScrapingJob after searchService.search has answered: without results or
\* without a valid URL it throws, and the catch block makes the job failed
\* with the message of the error; else scrapeMultipleUrls is called
Search(j) ==
  /\ jobs[j].pc = "search"
  /\ \/ jobs' = [jobs EXCEPT ![j] = [@ EXCEPT !.pc = "scrape"]]
     \/ \E error \in {"search", "urls"} :
          jobs' = [jobs EXCEPT ![j] = [status |-> "failed", error |-> error, pc |-> "done"]]
  /\ UNCHANGED cancelled
  /\ UNCHANGED <<storeVars, smtpConfig, dailyStats, transportCache, hour, resetDue,
                 loops, handed, transportFailures, calls>>
  /\ UNCHANGED <<updateVars, trackVars, cacheVars, tokenVars, templateVars>>

\* runScrapingJob after scrapeMultipleUrls has answered: job.status =
\* 'completed', whatever the status is; an error thrown by the scraping makes
\* the job failed with its message
Scrape(j) ==
  /\ jobs[j].pc = "scrape"
  /\ \/ jobs' = [jobs EXCEPT ![j] = [@ EXCEPT !.status = "completed", !.pc = "done"]]
     \/ jobs' = [jobs EXCEPT ![j] = [status |-> "failed", error |-> "scrape", pc |-> "done"]]
  /\ UNCHANGED cancelled
  /\ UNCHANGED <<storeVars, smtpConfig, dailyStats, transportCache, hour, resetDue,
                 loops, handed, transportFailures, calls>>
  /\ UNCHANGED <<updateVars, trackVars, cacheVars, tokenVars, templateVars>>

\* cancelJob on a job that is running: it returns true (on any other job it
\* returns false and changes nothing)
CancelJob(j) ==
  /\ jobs[j].status = "running"
  /\ jobs' = [jobs EXCEPT ![j] = [@ EXCEPT !.status = "failed", !.error = "cancelled"]]
  /\ cancelled' = cancelled \cup {j}
  /\ UNCHANGED <<storeVars, smtpConfig, dailyStats, transportCache, hour, resetDue,
                 loops, handed, transportFailures, calls>>
  /\ UNCHANGED <<updateVars, trackVars, cacheVars, tokenVars, templateVars>>

JobNext ==
  \/ \E j \in JobIds : RunScrapingJob(j)
  \/ \E j \in JobIds : Search(j)
  \/ \E j \in JobIds : Scrape(j)
  \/ \E j \in JobIds : CancelJob(j)

JobInit == (\E cfg \in TrackConfigs : InitWith(cfg)) /\ SideIdle

JobSpec == JobInit /\ [][JobNext]_vars

\* -------------------------------------------------------- personalizeTemplate
\* the keys of placeholders and variables, and the values of variables
Keys == {"a", "b"}
Values == {<<>>, <<"v">>}

\* `{{${key}}}`
Placeholder(key) == <<"{", "{", key, "}", "}">>

\* the templates: at most MaxPieces pieces, each a text or a placeholder
RECURSIVE PiecesOf(_)
PiecesOf(n) ==
  IF n = 0 THEN {<<>>}
  ELSE LET shorter == PiecesOf(n - 1)
       IN shorter \cup {s \o piece : s \in shorter,
                                    piece \in {<<"x">>} \cup {Placeholder(key) : key \in Keys}}

Templates == PiecesOf(MaxPieces)

\* the variables of a recipient: values for some of the keys
VariableMaps == UNION {[keys -> Values] : keys \in SUBSET Keys}

\* result.replace(new RegExp(escapeRegExp(placeholder), 'g'), value): every
\* occurrence from left to right, the text that was put in is not read again
RECURSIVE ReplaceAll(_, _, _)
ReplaceAll(s, placeholder, value) ==
  IF Len(s) < Len(placeholder) THEN s
  ELSE IF SubSeq(s, 1, Len(placeholder)) = placeholder
    THEN value \o ReplaceAll(SubSeq(s, Len(placeholder) + 1, Len(s)), placeholder, value)
    ELSE <<Head(s)>> \o ReplaceAll(Tail(s), placeholder, value)

\* the forEach over Object.entries(variables)
RECURSIVE ReplaceEntries(_, _, _)
ReplaceEntries(result, entries, keys) ==
  IF keys = {} THEN result
  ELSE LET key == CHOOSE k \in keys : TRUE
       IN ReplaceEntries(ReplaceAll(result, Placeholder(key), entries[key]), entries,
                         keys \ {key})

\* personalizeTemplate with a value for every key, '' for a key without one
PersonalizeTemplateAllKeys(text, entries) ==
  ReplaceEntries(text, [key \in Keys |-> IF key \in DOMAIN entries THEN entries[key] ELSE <<>>],
                 Keys)

\* personalizeTemplate on one string (the subject or the body)
PersonalizeTemplate(text, entries) == ReplaceEntries(text, entries, DOMAIN entries)

TemplateInit ==
  /\ \E cfg \in TrackConfigs : InitWith(cfg)
  /\ UpdateIdle /\ TrackIdle /\ CacheIdle /\ JobIdle /\ TokenIdle
  /\ template \in Templates
  /\ variables \in VariableMaps
  /\ personalized = NotCalled

\* processCampaignEmails personalizes the subject or the body of a message
Personalize ==
  /\ ~personalized.done
  /\ personalized' = [done |-> TRUE, threw |-> FALSE,
                      value |-> PersonalizeTemplate(template, variables)]
  /\ UNCHANGED <<storeVars, smtpConfig, dailyStats, transportCache, hour, resetDue,
                 loops, handed, transportFailures, calls>>
  /\ UNCHANGED <<updateVars, trackVars, cacheVars, jobVars, tokenVars, template, variables>>

TemplateNext == Personalize

TemplateSpec == TemplateInit /\ [][TemplateNext]_vars

\* ----------------------------------------------------------------- claims
\* a slot holds an invocation of processCampaignEmails on campaign c
LiveOn(l, c) ==
  loops[l].camp = c /\ loops[l].pc \in {"process", "iter", "sendmail", "record", "check"}

\* slot l hands a message to the transport in this step
Hands(l) == loops[l].pc = "sendmail" /\ loops'[l].pc = "record"

\* slot l ends sendEmail and records its result in this step
Records(l) == loops[l].pc = "record" /\ loops'[l].pc = "iter"

\* C1: in a run with one start call and nothing else, so that every later
\* pass is an hourly continuation of the first, and in which no attempt has
\* failed, each recipient is handed to the transport at most once.
C1_SentAtMostOnce ==
  \A c \in Campaigns :
    (calls = <<Call("start", c, {})>> /\ smtpConfig.emailsFailed = 0)
      => \A r \in DOMAIN handed[c] : handed[c][r] <= 1

\* C2: a campaign that was started once and is not paused afterwards, with a
\* transport that always answers, eventually is completed with no recipient
\* pending (a further lifecycle call ends the obligation).
C2_EventuallyCompleted ==
  \A c \in Campaigns :
    (campStatus[c] = "running" /\ calls = <<Call("start", c, {})>>)
      ~> (\/ calls # <<Call("start", c, {})>>
          \/ campStatus[c] = "completed" /\ PendingOf(emails[c]) = {})

\* C3: while its campaign is paused no dispatch loop begins a send, that is,
\* no loop goes from the top of its for loop into sendEmail.
C3_NoSendWhilePaused ==
  [][\A l \in Loops :
       (loops[l].pc = "iter" /\ loops'[l].pc \in {"sendmail", "record"})
         => campStatus[loops[l].camp] # "paused"]_vars

\* C4: after the calls start, pause, resume on a campaign, a recipient that
\* was handed to the transport before the pause has not been handed to it a
\* second time.
C4_ResumeSendsOnce ==
  \A c \in Campaigns :
    OpsOf(CallsOf(c)) = <<"start", "pause", "resume">>
      => \A r \in CallsOf(c)[2].sent : handed[c][r] <= 1

\* C5: no two dispatch loops of one campaign are sending to the same
\* recipient at the same time.
C5_SingleLoop ==
  \A l, m \in Loops :
    (l # m /\ loops[l].camp = loops[m].camp
       /\ loops[l].pc \in {"sendmail", "record"} /\ loops[m].pc \in {"sendmail", "record"})
      => Current(l) # Current(m)

\* C6: with hourlyRateLimit = N > 0, every campaign started at most once and
\* never resumed (so that concurrent sendEmail calls belong to different
\* campaigns) and no bucket left over from the day before, no hour bucket
\* counts more than N successful sends.
C6_HourlyLimitHolds ==
  (/\ smtpConfig.hourlyRateLimit > 0
   /\ \A c \in Campaigns : Len(CallsOf(c)) <= 1
   /\ ~resetDue)
    => \A h \in Hours : dailyStats[h].sent <= smtpConfig.hourlyRateLimit

\* the pass that one start call began on campaign c has returned and has
\* left no continuation
PassEnded(c) ==
  /\ calls = <<Call("start", c, {})>>
  /\ campStatus[c] # "draft"
  /\ \A l \in Loops : loops[l].camp # c

\* C7: dailyLimit = 2, a campaign of 3 pending recipients started once, a
\* transport that accepts every message: when the pass has ended,
\* emailsSentToday is 2, one recipient is pending, none is failed and the
\* campaign is running.
C7_DailyLimitAborts ==
  \A c \in Campaigns :
    (/\ smtpConfig.dailyLimit = 2
     /\ smtpConfig.lastResetDate = "unset"
     /\ totalEmails[c] = 3
     /\ transportFailures = 0
     /\ PassEnded(c))
      => /\ smtpConfig.emailsSentToday = 2
         /\ Cardinality(PendingOf(emails[c])) = 1
         /\ \A r \in DOMAIN emails[c] : emails[c][r] # "failed"
         /\ campStatus[c] = "running"

\* C8: the step that records a send denied by the hourly rate limit leaves
\* every recipient of the campaign as it was, so the denied recipient stays
\* pending.
C8_HourlyDenialKeepsPending ==
  [][\A l \in Loops :
       (Records(l) /\ loops[l].error = "hourly")
         => emails'[loops[l].camp] = emails[loops[l].camp]]_vars

\* C9: the step that ends a denied sendEmail (daily or hourly) changes no
\* counter of the provider, of the hour buckets or of the campaign.
C9_DenialChangesNoCounter ==
  [][\A l \in Loops :
       (Records(l) /\ loops[l].error \in {"daily", "hourly"})
         => /\ smtpConfig'.emailsSentToday = smtpConfig.emailsSentToday
            /\ smtpConfig'.totalEmailsSent = smtpConfig.totalEmailsSent
            /\ smtpConfig'.emailsFailed = smtpConfig.emailsFailed
            /\ dailyStats' = dailyStats
            /\ emailsSent' = emailsSent
            /\ emailsFailed' = emailsFailed]_vars

\* C10: the step that ends a sendEmail whose message was handed to the
\* transport adds exactly 1 to emailsSentToday; it adds 1 to the sent count of
\* the current hour bucket when the transport accepted the message and leaves
\* every sent count unchanged when the transport rejected it.
C10_CounterAsymmetry ==
  [][\A l \in Loops :
       (Records(l) /\ loops[l].error \in {"none", "transport"})
         => /\ smtpConfig'.emailsSentToday = smtpConfig.emailsSentToday + 1
            /\ \A h \in Hours :
                 dailyStats'[h].sent =
                   IF h = hour /\ loops[l].error = "none"
                     THEN dailyStats[h].sent + 1
                     ELSE dailyStats[h].sent]_vars

\* witness of C10: a message the transport rejected has been recorded, it is
\* in emailsSentToday and in no sent count, and an accepted one is in both
C10_Witness ==
  /\ transportFailures = 1
  /\ \E c \in Campaigns : \E r, q \in DOMAIN emails[c] :
       /\ emails[c][r] = "failed" /\ handed[c][r] = 1
       /\ emails[c][q] = "sent" /\ handed[c][q] = 1
  /\ smtpConfig.emailsSentToday = 2
  /\ smtpConfig.emailsFailed = 1
  /\ \E h \in Hours : dailyStats[h].sent = 1 /\ \A g \in Hours \ {h} : dailyStats[g].sent = 0

\* slot l passes from the top of its for loop into sendEmail in this step:
\* the configuration is loaded and checkAndUpdateRateLimit runs
Admits(l) == loops[l].pc = "iter" /\ loops'[l].pc \in {"sendmail", "record"}

\* C11: a sendEmail call that finds the lastResetDate of an earlier day, and
\* so is the first admission of the new day, is not denied by the daily limit.
C11_FirstSendOfDayAdmitted ==
  [][\A l \in Loops :
       (Admits(l) /\ smtpConfig.isActive /\ smtpConfig.lastResetDate = "past")
         => loops'[l].error # "daily"]_vars

\* C12: a sendEmail call made after midnight on a configuration that has not
\* been reset on the new day (its lastResetDate is of an earlier day or was
\* never set) leaves emailsSentToday at 0.
C12_ResetOncePerDay ==
  [][\A l \in Loops :
       (Admits(l) /\ smtpConfig.isActive /\ resetDue
          /\ smtpConfig.lastResetDate # "today")
         => smtpConfig'.emailsSentToday = 0]_vars

\* C13: when the pass that one start call began has ended and no recipient is
\* pending, the campaign is completed and emailsSent + emailsFailed is the
\* number of its recipients.
C13_CompletedCountsAddUp ==
  \A c \in Campaigns :
    (PassEnded(c) /\ PendingOf(emails[c]) = {})
      => /\ campStatus[c] = "completed"
         /\ emailsSent[c] + emailsFailed[c] = totalEmails[c]

\* the recipients of campaign c that have status st
WithStatus(c, st) == {r \in DOMAIN emails[c] : emails[c][r] = st}

\* C14: in every state emailsFailed is the number of recipients with status
\* failed and emailsSent is the number of recipients with status sent.
C14_CountersMatchRecipients ==
  \A c \in Campaigns :
    /\ emailsFailed[c] = Cardinality(WithStatus(c, "failed"))
    /\ emailsSent[c] = Cardinality(WithStatus(c, "sent"))

\* C15: a step that makes a campaign completed finds it running and with no
\* recipient pending.
C15_CompletedOnlyFromRunning ==
  [][\A c \in Campaigns :
       (campStatus'[c] = "completed" /\ campStatus[c] # "completed")
         => campStatus[c] = "running" /\ PendingOf(emails[c]) = {}]_vars

\* a lifecycle call with one of the operations ops is made on campaign c in
\* this step
Called(ops, c) ==
  /\ Len(calls') = Len(calls) + 1
  /\ calls'[Len(calls')].camp = c
  /\ calls'[Len(calls')].op \in ops

\* C16: a start call on a running, completed or failed campaign, a pause call
\* on a campaign that is not running and a resume call on a campaign that is
\* not paused change nothing in the store and start no invocation of the
\* dispatch loop.
C16_RejectedCallChangesNothing ==
  [][\A c \in Campaigns :
       (\/ Called({"start", "startRejected"}, c)
             /\ campStatus[c] \in {"running", "completed", "failed"}
        \/ Called({"pause", "pauseRejected"}, c)
             /\ campStatus[c] \notin {"absent", "running"}
        \/ Called({"resume", "resumeRejected"}, c)
             /\ campStatus[c] \notin {"absent", "paused"})
         => UNCHANGED <<storeVars, loops>>]_vars

\* witness of C16: a start call was rejected on a campaign that a pass is
\* working on, and the campaign is still running with that one pass
C16_Witness ==
  \E c \in Campaigns :
    /\ OpsOf(CallsOf(c)) = <<"start", "startRejected">>
    /\ campStatus[c] = "running"
    /\ Cardinality({l \in Loops : LiveOn(l, c)}) = 1
    /\ \E r \in DOMAIN emails[c] : emails[c][r] = "sent"

\* C17: a step that makes a campaign running finds at least one of its
\* recipients pending.
C17_RunningNeedsPending ==
  [][\A c \in Campaigns :
       (campStatus'[c] = "running" /\ campStatus[c] # "running")
         => PendingOf(emails[c]) # {}]_vars

\* C18: when the SMTP configuration is missing or inactive and the pass that
\* one start call began has ended, the campaign is failed and none of its
\* recipients is.
C18_SetupErrorFailsCampaign ==
  \A c \in Campaigns :
    ((~smtpConfig.exists \/ ~smtpConfig.isActive) /\ PassEnded(c))
      => /\ campStatus[c] = "failed"
         /\ \A r \in DOMAIN emails[c] : emails[c][r] # "failed"

\* C19: the step that ends a sendEmail whose getTransporter failed to verify
\* the connection makes the campaign failed and leaves the recipient as it was.
C19_VerifyFailureFailsCampaign ==
  [][\A l \in Loops :
       (Records(l) /\ loops[l].error = "verify")
         => /\ campStatus'[loops[l].camp] = "failed"
            /\ emails'[loops[l].camp][Current(l)] = emails[loops[l].camp][Current(l)]]_vars

\* C20: the step that ends a sendEmail whose message the transport rejected
\* makes that recipient, and no other, failed with the error of the transport,
\* leaves the status of every campaign as it was, and the loop goes on with
\* the next pending recipient of its list.
C20_TransportErrorIsolated ==
  [][\A l \in Loops :
       (loops[l].pc = "record" /\ loops'[l].pc # "record" /\ loops[l].error = "transport")
         => /\ emails' = [emails EXCEPT ![loops[l].camp][Current(l)] = "failed"]
            /\ emailError' = [emailError EXCEPT ![loops[l].camp][Current(l)] = "transport"]
            /\ campStatus' = campStatus
            /\ loops'[l].pc = "iter"
            /\ loops'[l].snap = loops[l].snap
            /\ loops'[l].cur = loops[l].cur + 1]_vars

\* witness of C20: in a campaign started once the transport rejected the
\* message of one recipient, which is failed with that error, a later
\* recipient was sent, and the campaign is running
C20_Witness ==
  \E c \in Campaigns : \E r, q \in DOMAIN emails[c] :
    /\ calls = <<Call("start", c, {})>>
    /\ r < q
    /\ emails[c][r] = "failed" /\ emailError[c][r] = "transport" /\ handed[c][r] = 1
    /\ emails[c][q] = "sent" /\ handed[c][q] = 1
    /\ campStatus[c] = "running"

\* C21: the step in which updateCampaign writes its updates finds the
\* campaign in another status than running, and an updateCampaign call that
\* is rejected changes nothing in the store.
C21_NoUpdateWhileRunning ==
  [][\A c \in Campaigns :
       /\ (c \in updates /\ c \notin updates') => campStatus[c] # "running"
       /\ Called({"updateRejected"}, c) => UNCHANGED storeVars]_vars

\* a tracking call with operation op and the token of recipient r of campaign
\* c is answered in this step
Tracked(op, c, r) ==
  /\ Len(responses') = Len(responses) + 1
  /\ responses'[Len(responses')].op = op
  /\ responses'[Len(responses')].token = TokenOf(c, r)

\* C22: when the tracking calls made so far are two trackOpen calls with the
\* token of one recipient whose message was handed to the transport, the open count of
\* that recipient is 2 and its status is opened.
C22_OpensCounted ==
  \A c \in Campaigns : \A r \in DOMAIN emails[c] :
    (/\ OpsOf(responses) = <<"open", "open">>
     /\ \A i \in DOMAIN responses : responses[i].token = TokenOf(c, r)
     /\ handed[c][r] > 0)
      => openCount[c][r] = 2 /\ emails[c][r] = "opened"

C24_ClickRecorded ==
  [][\A c \in Campaigns : \A r \in DOMAIN emails[c] :
       (Tracked("click", c, r) /\ handed[c][r] > 0 /\ responses'[Len(responses')].success)
         => /\ \E link \in Links : clickLinks'[c][r] = clickLinks[c][r] \cup {link}
            /\ clickLinks'[c][r] # {}
            /\ clickCount'[c][r] = clickCount[c][r] + 1
            /\ emails'[c][r] = "clicked"]_vars

\* C26: every trackOpen and trackingClick call reports success, and a call
\* with a token that cannot be parsed changes nothing in the store.
C26_IngestAlwaysSucceeds ==
  [][(Len(responses') = Len(responses) + 1
        /\ responses'[Len(responses')].op \in {"open", "click"})
       => /\ responses'[Len(responses')].success
          /\ ParseTrackingId(responses'[Len(responses')].token) = <<>>
               => UNCHANGED <<storeVars, openCount, clickCount, clickLinks, emailsOpened,
                              emailsClicked, emailsReplied>>]_vars

\* the string has no delimiter character
NoDelimiter(s) == \A i \in 1..Len(s) : s[i] # "_"

\* C25: for a campaign id and an address without the delimiter, and every
\* timestamp, parseTrackingId on the token built from them does not throw and
\* returns exactly the campaign id and the address.
C25_TokenRoundTrip ==
  (parsed.done /\ NoDelimiter(token.campaignId) /\ NoDelimiter(token.address))
    => ~parsed.threw /\ parsed.value = <<token.campaignId, token.address>>

\* witness of C25: a token built from an id and an address of two characters
\* each and a timestamp of two digits has been parsed back into the two
C25_Witness ==
  /\ parsed.done
  /\ token = [campaignId |-> <<"1", "1">>, address |-> <<"x", "x">>, millis |-> <<"7", "8">>]
  /\ parsed.value = <<<<"1", "1">>, <<"x", "x">>>>

C28_UpdateEvictsOldSession ==
  [][(cacheKey' # cacheKey /\ transportCache) => cacheKey \notin otherCached']_vars

\* C30: a job for which cancelJob has returned true stays failed: it is not
\* made completed by the runScrapingJob call that still executes.
C30_CancelledStaysFailed ==
  \A j \in cancelled : jobs[j].status = "failed"

\* the string has the placeholder of the key
Contains(s, placeholder) ==
  \E i \in 1..(Len(s) - Len(placeholder) + 1) :
    SubSeq(s, i, i + Len(placeholder) - 1) = placeholder

\* C29: the personalized string is the template with every placeholder
\* replaced, by the value of its key or by the empty string when the variables
\* have no such key, so it has no placeholder of the template.
C29_EveryPlaceholderReplaced ==
  personalized.done
    => /\ personalized.value = PersonalizeTemplateAllKeys(template, variables)
       /\ \A key \in Keys :
            Contains(template, Placeholder(key)) => ~Contains(personalized.value, Placeholder(key))

====
